---------------------------- MODULE Spec2Model ----------------------------
(***************************************************************************)
(* Model of cabinet's configuration resolution engine                      *)
(* (src/cabinet/config_utils.py) and of the filters it instantiates.       *)
(*                                                                         *)
(* A Python str is a sequence of one-character strings, so that prefix     *)
(* tests, splitting, stripping, case folding and integer parsing are       *)
(* computed character by character as the code computes them.  A dict is   *)
(* a sequence of entries in insertion order (the order Python iterates).   *)
(***************************************************************************)
EXTENDS Integers, Sequences, FiniteSets, TLC

\* ------------------------------------------------------------------ bounds
\* Longest raw value handed to decode_kwarg in the decoder specification.
MaxLen == 3
\* Largest number of entries of a settings map.
MaxSettings == 4
\* Longest filename of an item handed to a filter.
MaxName == 4

\* ----------------------------------------------------------- str builtins
Digits == {"0", "1", "2", "3", "4", "5", "6", "7", "8", "9"}
Whitespace == {" ", "\t", "\n"}
Quotes == {"\"", "'"}
UpperChars == <<"A","B","C","D","E","F","G","H","I","J","K","L","M","N","O","P","Q","R","S","T","U","V","W","X","Y","Z">>
LowerChars == <<"a","b","c","d","e","f","g","h","i","j","k","l","m","n","o","p","q","r","s","t","u","v","w","x","y","z">>

\* value[i:j] of Python for 1-based inclusive bounds; empty when i > j.
Slice(s, i, j) == IF i > j THEN <<>> ELSE SubSeq(s, i, j)

\* str.startswith / str.endswith
StartsWith(s, p) == Len(s) >= Len(p) /\ SubSeq(s, 1, Len(p)) = p
EndsWith(s, p) == Len(s) >= Len(p) /\ SubSeq(s, Len(s) - Len(p) + 1, Len(s)) = p

\* str.lower, one character
LowerChar(c) ==
    IF \E i \in 1..Len(UpperChars) : UpperChars[i] = c
    THEN LowerChars[CHOOSE i \in 1..Len(UpperChars) : UpperChars[i] = c]
    ELSE c

\* str.lower
Lower(s) == [i \in 1..Len(s) |-> LowerChar(s[i])]

\* str.lstrip(chars) / str.rstrip(chars) / str.strip(chars)
RECURSIVE LStrip(_, _)
LStrip(s, chars) ==
    IF s # <<>> /\ Head(s) \in chars THEN LStrip(Tail(s), chars) ELSE s

RECURSIVE RStrip(_, _)
RStrip(s, chars) ==
    IF s # <<>> /\ s[Len(s)] \in chars
    THEN RStrip(SubSeq(s, 1, Len(s) - 1), chars)
    ELSE s

Strip(s, chars) == RStrip(LStrip(s, chars), chars)

\* sub in s
Contains(s, sub) ==
    \E i \in 1..(Len(s) - Len(sub) + 1) : SubSeq(s, i, i + Len(sub) - 1) = sub

\* str.isdigit
IsDigit(s) == s # <<>> /\ \A i \in 1..Len(s) : s[i] \in Digits

DigitVal(c) == CHOOSE n \in 0..9 : ToString(n) = c

\* int(s) for a string of decimal digits
RECURSIVE DigitsToInt(_)
DigitsToInt(s) ==
    IF s = <<>> THEN 0
    ELSE 10 * DigitsToInt(SubSeq(s, 1, Len(s) - 1)) + DigitVal(s[Len(s)])

\* int(s): an optional sign and decimal digits; anything else is a ValueError
IntParses(s) ==
    \/ IsDigit(s)
    \/ Len(s) >= 2 /\ s[1] \in {"+", "-"} /\ IsDigit(Tail(s))

IntOf(s) ==
    IF IsDigit(s) THEN DigitsToInt(s)
    ELSE IF s[1] = "-" THEN 0 - DigitsToInt(Tail(s))
    ELSE DigitsToInt(Tail(s))

\* ------------------------------------------------------- values and errors
IntV(n) == [t |-> "int", n |-> n]
StrV(s) == [t |-> "str", s |-> s]
ListV(items) == [t |-> "list", items |-> items]
SetV(elems) == [t |-> "set", elems |-> elems]
DictV == [t |-> "dict"]

\* A raised exception: its class, its message format, and the two texts the
\* message is formatted from (the key path or raw value, and the detail).
Exc(type, fmt, path, detail) ==
    [t |-> "exc", type |-> type, fmt |-> fmt, path |-> path, detail |-> detail]
NoExc == [t |-> "noexc"]
IsExc(r) == r.t = "exc"

\* src/cabinet/exceptions.py
CabinetConfigError == "CabinetConfigError"

\* ------------------------------------------------------------ decode_kwarg
\* The literals eval(value, {}, {}) accepts among the strings of the model's
\* alphabets: integers, quoted strings, and a list, set or dict display of at
\* most one such element.  ParseFail stands for any exception eval raises.
ParseFail == [t |-> "parsefail"]

IsIntLiteral(s) ==
    /\ IsDigit(s)
    /\ (s[1] = "0" => \A i \in 1..Len(s) : s[i] = "0")

IsStrLiteral(s) ==
    /\ Len(s) >= 2
    /\ s[1] \in Quotes
    /\ s[Len(s)] = s[1]
    /\ \A i \in 2..(Len(s) - 1) : s[i] # s[1] /\ s[i] # "\\" /\ s[i] # "\n"

RECURSIVE EvalLiteral(_)
EvalLiteral(s) ==
    IF IsIntLiteral(s) THEN IntV(DigitsToInt(s))
    ELSE IF IsStrLiteral(s) THEN StrV(Slice(s, 2, Len(s) - 1))
    ELSE IF Len(s) >= 2 /\ s[1] = "[" /\ s[Len(s)] = "]"
    THEN IF Len(s) = 2 THEN ListV(<<>>)
         ELSE LET e == EvalLiteral(Slice(s, 2, Len(s) - 1))
              IN  IF e = ParseFail THEN ParseFail ELSE ListV(<<e>>)
    ELSE IF Len(s) >= 2 /\ s[1] = "{" /\ s[Len(s)] = "}"
    THEN IF Len(s) = 2 THEN DictV
         ELSE LET e == EvalLiteral(Slice(s, 2, Len(s) - 1))
              IN  IF e.t \in {"int", "str"} THEN SetV({e}) ELSE ParseFail
    ELSE ParseFail

\* unquote: value[0] of the empty string is an IndexError
UnquoteRaises(value) == value = <<>>

Unquote(value) ==
    IF value[1] \in Quotes /\ value[1] = value[Len(value)]
    THEN Slice(value, 2, Len(value) - 1)
    ELSE value

\* decode_kwarg on a str
DecodeStr(value) ==
    IF \/ StartsWith(value, <<"[">>) /\ EndsWith(value, <<"]">>)
       \/ StartsWith(value, <<"{">>) /\ EndsWith(value, <<"}">>)
    THEN LET e == EvalLiteral(value)
         IN  IF e = ParseFail
             THEN Exc(CabinetConfigError, "Pyramid settings bad value {}: {}", value,
                      <<"i","n","v","a","l","i","d"," ","l","i","t","e","r","a","l">>)
             ELSE e
    ELSE IF IsDigit(value) THEN IntV(DigitsToInt(value))
    ELSE IF UnquoteRaises(value)
    THEN Exc("IndexError", "{}", <<>>, <<"s","t","r","i","n","g"," ","i","n","d","e","x"," ","o","u","t"," ","o","f"," ","r","a","n","g","e">>)
    ELSE StrV(Unquote(value))

\* -------------------------------------------------------------------- dict
\* A dict is a sequence of entries [key, val] in insertion order.  The key
\* None (the tree's leaf slot) is NoneKey, which no str equals.
NoneKey == <<"None">>

DictHas(d, k) == \E i \in 1..Len(d) : d[i].key = k
DictIndex(d, k) == CHOOSE i \in 1..Len(d) : d[i].key = k
DictGet(d, k) == d[DictIndex(d, k)].val

\* d[k] = v: an existing key keeps its position, a new key is appended
DictSet(d, k, v) ==
    IF DictHas(d, k)
    THEN [d EXCEPT ![DictIndex(d, k)] = [key |-> k, val |-> v]]
    ELSE Append(d, [key |-> k, val |-> v])

\* d.pop(k), the dict that is left
DictPop(d, k) ==
    LET i == DictIndex(d, k)
    IN  SubSeq(d, 1, i - 1) \o SubSeq(d, i + 1, Len(d))

\* --------------------------------------------- set_nested_value, get_keys_from
\* key.replace("[", ".[")
RECURSIVE ReplaceBracket(_)
ReplaceBracket(key) ==
    IF key = <<>> THEN <<>>
    ELSE IF Head(key) = "[" THEN <<".", "[">> \o ReplaceBracket(Tail(key))
    ELSE <<Head(key)>> \o ReplaceBracket(Tail(key))

\* key.split(".")
RECURSIVE Split(_)
Split(key) ==
    IF \E i \in 1..Len(key) : key[i] = "."
    THEN LET i == CHOOSE i \in 1..Len(key) :
                      key[i] = "." /\ \A j \in 1..(i - 1) : key[j] # "."
         IN  <<Slice(key, 1, i - 1)>> \o Split(Slice(key, i + 1, Len(key)))
    ELSE <<key>>

\* the loop of set_nested_value: sub = sub.setdefault(part, {}) for each part,
\* then sub[None] = value
RECURSIVE SetPath(_, _, _)
SetPath(node, parts, value) ==
    IF parts = <<>> THEN DictSet(node, NoneKey, value)
    ELSE LET sub == IF DictHas(node, Head(parts))
                    THEN DictGet(node, Head(parts))
                    ELSE <<>>
         IN  DictSet(node, Head(parts), SetPath(sub, Tail(parts), value))

set_nested_value(key, value, result) ==
    SetPath(result, Split(ReplaceBracket(key)), Strip(value, Whitespace))

\* variant: the separator after the prefix is not required
KeySelectedAnyPrefix(prefix, key) == StartsWith(key, prefix)

\* the selection of get_keys_from
KeySelected(prefix, key) ==
    StartsWith(key, prefix \o <<".">>) \/ StartsWith(key, prefix \o <<"[">>)

\* the loop of get_keys_from over settings.items(), entries <<key, value>>
RECURSIVE FoldSettings(_, _, _)
FoldSettings(prefix, settings, result) ==
    IF settings = <<>> THEN result
    ELSE FoldSettings(prefix, Tail(settings),
            IF KeySelected(prefix, Head(settings)[1])
            THEN set_nested_value(Head(settings)[1], Head(settings)[2], result)
            ELSE result)

get_keys_from(prefix, settings) ==
    LET result == FoldSettings(prefix, settings, <<>>)
    IN  IF DictHas(result, prefix) THEN DictGet(result, prefix) ELSE <<>>

\* ------------------------------------------------------------------ classes
\* The classes the type resolver can reach.  init is the parameter list
\* inspect.signature reports for the class's __init__ (inherited when the
\* class defines none) without self and without a **kwargs collector;
\* required are the parameters without a default; mro is cls.mro().
ObjectCls == [id |-> "object", init |-> {<<"a","r","g","s">>}, required |-> {},
              var_kw |-> TRUE, mro |-> <<"object">>]
ABCCls == [id |-> "ABC", init |-> {<<"a","r","g","s">>}, required |-> {},
           var_kw |-> TRUE, mro |-> <<"ABC", "object">>]
StorageHandlerBase ==
    [id |-> "StorageHandlerBase", init |-> {<<"f","i","l","t","e","r","s">>}, required |-> {},
     var_kw |-> FALSE, mro |-> <<"StorageHandlerBase", "ABC", "object">>]
DummyHandler ==
    [id |-> "DummyHandler", init |-> {<<"b","a","s","e","_","u","r","l">>}, required |-> {},
     var_kw |-> TRUE,
     mro |-> <<"DummyHandler", "StorageHandlerBase", "ABC", "object">>]
S3Handler ==
    [id |-> "S3Handler", init |-> {<<"b","u","c","k","e","t","_","n","a","m","e">>},
     required |-> {<<"b","u","c","k","e","t","_","n","a","m","e">>}, var_kw |-> TRUE,
     mro |-> <<"S3Handler", "StorageHandlerBase", "ABC", "object">>]
FilterBase ==
    [id |-> "FilterBase", init |-> {<<"a","r","g","s">>}, required |-> {},
     var_kw |-> TRUE, mro |-> <<"FilterBase", "ABC", "object">>]
ValidateExtension ==
    [id |-> "ValidateExtension", init |-> {<<"e","x","t","e","n","s","i","o","n","s">>},
     required |-> {<<"e","x","t","e","n","s","i","o","n","s">>}, var_kw |-> FALSE,
     mro |-> <<"ValidateExtension", "FilterBase", "ABC", "object">>]
RandomizeFilename ==
    [id |-> "RandomizeFilename", init |-> {<<"n","a","m","e","_","g","e","n","e","r","a","t","o","r">>},
     required |-> {}, var_kw |-> FALSE,
     mro |-> <<"RandomizeFilename", "FilterBase", "ABC", "object">>]

\* a diamond handed to get_init_properties: Both(Left, Right), Left(Base),
\* Right(Base), each __init__ taking one parameter of its own and **kwargs
BaseCls == [id |-> "Base", init |-> {<<"a">>}, required |-> {},
            var_kw |-> TRUE, mro |-> <<"Base", "object">>]
LeftCls == [id |-> "Left", init |-> {<<"b">>}, required |-> {},
            var_kw |-> TRUE, mro |-> <<"Left", "Base", "object">>]
RightCls == [id |-> "Right", init |-> {<<"c">>}, required |-> {},
             var_kw |-> TRUE, mro |-> <<"Right", "Base", "object">>]
BothCls == [id |-> "Both", init |-> {<<"d">>}, required |-> {},
            var_kw |-> TRUE, mro |-> <<"Both", "Left", "Right", "Base", "object">>]

Classes == {ObjectCls, ABCCls, StorageHandlerBase, DummyHandler, S3Handler,
            FilterBase, ValidateExtension, RandomizeFilename,
            BaseCls, LeftCls, RightCls, BothCls}
ClassOf(id) == CHOOSE c \in Classes : c.id = id

\* The importable modules and the class each exported name is bound to.
HandlersModule == <<"c","a","b","i","n","e","t",".","h","a","n","d","l","e","r","s">>
FiltersModule == <<"c","a","b","i","n","e","t",".","f","i","l","t","e","r","s">>
ModuleAttrs(module_name) ==
    IF module_name = HandlersModule
    THEN <<[key |-> <<"D","u","m","m","y","H","a","n","d","l","e","r">>, val |-> "DummyHandler"],
           [key |-> <<"S","3","H","a","n","d","l","e","r">>, val |-> "S3Handler"]>>
    ELSE IF module_name = FiltersModule
    THEN <<[key |-> <<"V","a","l","i","d","a","t","e","E","x","t","e","n","s","i","o","n">>, val |-> "ValidateExtension"],
           [key |-> <<"R","a","n","d","o","m","i","z","e","F","i","l","e","n","a","m","e">>, val |-> "RandomizeFilename"]>>
    ELSE <<>>
Importable(module_name) == module_name \in {HandlersModule, FiltersModule}

\* --------------------------------------------------------------- try_import
\* model.rpartition("."): the text before and after the last "."
LastDot(s) == CHOOSE i \in 1..Len(s) :
                  s[i] = "." /\ \A j \in (i + 1)..Len(s) : s[j] # "."
HasDot(s) == \E i \in 1..Len(s) : s[i] = "."
RPartitionHead(s) == IF HasDot(s) THEN Slice(s, 1, LastDot(s) - 1) ELSE <<>>
RPartitionTail(s) == IF HasDot(s) THEN Slice(s, LastDot(s) + 1, Len(s)) ELSE s

\* The class id, or the ValueError try_import raises.
try_import(default_module, model) ==
    LET head == RPartitionHead(model)
        module_name == IF head = <<>> THEN default_module ELSE head
        cls_name == RPartitionTail(model)
    IN  IF ~Importable(module_name)
        THEN Exc("ValueError", "{}", <<>>, <<"m","o","d","u","l","e"," ","n","o","t"," ","i","n","s","t","a","l","l","e","d">>)
        ELSE IF ~DictHas(ModuleAttrs(module_name), cls_name)
        THEN Exc("ValueError", "{}", <<>>, <<"b","a","d"," ","c","l","a","s","s"," ","n","a","m","e">>)
        ELSE [t |-> "cls", id |-> DictGet(ModuleAttrs(module_name), cls_name)]

\* ------------------------------------------------------ get_init_properties
IsSubclass(id, to_id) == \E i \in 1..Len(ClassOf(id).mro) : ClassOf(id).mro[i] = to_id

\* cls.mro()[1] exists for every class but object (IndexError)
RECURSIVE InitPropertiesRaises(_, _)
InitPropertiesRaises(id, to_id) ==
    \/ Len(ClassOf(id).mro) = 1
    \/ /\ IsSubclass(ClassOf(id).mro[2], to_id)
       /\ InitPropertiesRaises(ClassOf(id).mro[2], to_id)

RECURSIVE get_init_properties(_, _)
get_init_properties(id, to_id) ==
    ClassOf(id).init \cup
        (IF IsSubclass(ClassOf(id).mro[2], to_id)
         THEN get_init_properties(ClassOf(id).mro[2], to_id)
         ELSE {})

\* ---------------------------------------------- difflib.get_close_matches
CharOrder == <<"0","1","2","3","4","5","6","7","8","9","A","B","C","D","E","F","G","H","I","J","K","L","M","N","O","P","Q","R","S","T","U","V","W","X","Y","Z","_","a","b","c","d","e","f","g","h","i","j","k","l","m","n","o","p","q","r","s","t","u","v","w","x","y","z">>
Ord(c) == CHOOSE i \in 1..Len(CharOrder) : CharOrder[i] = c

\* a < b for str
RECURSIVE StrLess(_, _)
StrLess(a, b) ==
    IF b = <<>> THEN FALSE
    ELSE IF a = <<>> THEN TRUE
    ELSE IF Head(a) = Head(b) THEN StrLess(Tail(a), Tail(b))
    ELSE Ord(Head(a)) < Ord(Head(b))

\* SequenceMatcher.find_longest_match without junk: the common blocks
\* <<i, j, k>> with a[i..i+k-1] = b[j..j+k-1], and the longest of them, the
\* earliest in a, then the earliest in b
Blocks(a, b) ==
    {m \in (1..Len(a)) \X (1..Len(b)) \X (1..Len(a)) :
        /\ m[1] + m[3] - 1 <= Len(a)
        /\ m[2] + m[3] - 1 <= Len(b)
        /\ SubSeq(a, m[1], m[1] + m[3] - 1) = SubSeq(b, m[2], m[2] + m[3] - 1)}
LongestOf(blocks) ==
    CHOOSE m \in blocks : \A o \in blocks :
        \/ o[3] < m[3]
        \/ o[3] = m[3] /\ (m[1] < o[1] \/ (m[1] = o[1] /\ m[2] <= o[2]))

\* the number of matched characters of get_matching_blocks
RECURSIVE Matches(_, _)
Matches(a, b) ==
    LET blocks == Blocks(a, b)
    IN  IF blocks = {} THEN 0
        ELSE LET m == LongestOf(blocks)
             IN  m[3] + Matches(Slice(a, 1, m[1] - 1), Slice(b, 1, m[2] - 1))
                      + Matches(Slice(a, m[1] + m[3], Len(a)),
                                Slice(b, m[2] + m[3], Len(b)))

\* ratio() >= cutoff for the default cutoff 0.6: 2*M/T >= 6/10
IsClose(x, word) == 10 * 2 * Matches(x, word) >= 6 * (Len(x) + Len(word))

\* (ratio(x), x) < (ratio(y), y)
ScoreLess(x, y, word) ==
    LET mx == Matches(x, word) * (Len(y) + Len(word))
        my == Matches(y, word) * (Len(x) + Len(word))
    IN  mx < my \/ (mx = my /\ StrLess(x, y))

\* get_close_matches(word, possibilities, 1): empty or the single best match
get_close_matches(word, possibilities) ==
    LET close == {x \in possibilities : IsClose(x, word)}
    IN  IF close = {} THEN <<>>
        ELSE <<CHOOSE x \in close : \A y \in close \ {x} : ScoreLess(y, x, word)>>

\* ------------------------------------------------------------- constructors
\* The names a constructor call accepts: the class's own parameters and,
\* through a **kwargs collector passed to super().__init__, its base's.
RECURSIVE Accepts(_)
Accepts(id) ==
    ClassOf(id).init \cup
        (IF ClassOf(id).var_kw /\ Len(ClassOf(id).mro) > 1
         THEN Accepts(ClassOf(id).mro[2])
         ELSE {})

\* ValidateExtension.__init__: ext.lower() for ext in extensions
ExtensionsIterable(v) ==
    \/ v.t = "str"
    \/ v.t = "dict"
    \/ v.t = "list" /\ \A i \in 1..Len(v.items) : v.items[i].t = "str"
    \/ v.t = "set" /\ \A e \in v.elems : e.t = "str"

Instance(id, kwargs) == [t |-> "inst", cls |-> id, kwargs |-> kwargs]

KwargNames(kwargs) == {kwargs[i].key : i \in 1..Len(kwargs)}

\* cls(**kwargs): the instance, or the exception the call raises
Construct(id, kwargs) ==
    IF \E n \in KwargNames(kwargs) : n \notin Accepts(id)
    THEN Exc("TypeError", "{}", <<>>,
             <<"g","o","t"," ","a","n"," ","u","n","e","x","p","e","c","t","e","d"," ","k","e","y","w","o","r","d"," ","a","r","g","u","m","e","n","t"," ","'">>
                \o (CHOOSE n \in KwargNames(kwargs) : n \notin Accepts(id))
                \o <<"'">>)
    ELSE IF \E n \in ClassOf(id).required : n \notin KwargNames(kwargs)
    THEN Exc("TypeError", "{}", <<>>,
             <<"m","i","s","s","i","n","g"," ","1"," ","r","e","q","u","i","r","e","d"," ","p","o","s","i","t","i","o","n","a","l"," ","a","r","g","u","m","e","n","t",":"," ","'">>
                \o (CHOOSE n \in ClassOf(id).required : n \notin KwargNames(kwargs))
                \o <<"'">>)
    ELSE IF id = "ValidateExtension"
            /\ ~ExtensionsIterable(DictGet(kwargs, <<"e","x","t","e","n","s","i","o","n","s">>))
    THEN IF DictGet(kwargs, <<"e","x","t","e","n","s","i","o","n","s">>).t = "int"
         THEN Exc("TypeError", "{}", <<>>, <<"'","i","n","t","'"," ","o","b","j","e","c","t"," ","i","s"," ","n","o","t"," ","i","t","e","r","a","b","l","e">>)
         ELSE Exc("AttributeError", "{}", <<>>, <<"o","b","j","e","c","t"," ","h","a","s"," ","n","o"," ","a","t","t","r","i","b","u","t","e"," ","'","l","o","w","e","r","'">>)
    ELSE Instance(id, kwargs)

\* ------------------------------------------------------------------- events
\* What setup does to its collaborators, in order: a call of try_import, a
\* constructor call, a child lookup store[name], an assignment store.handler.
\* at is the key path the code names the component by, store the container,
\* set the handler assigned or what the constructor call returned or raised.
NoValue == [t |-> "novalue"]
ImportEvent(at, model) ==
    [op |-> "try_import", at |-> at, arg |-> model, names |-> {},
     store |-> <<>>, set |-> NoValue]
ConstructEvent(at, id, kwargs, made) ==
    [op |-> "construct", at |-> at, arg |-> id, names |-> KwargNames(kwargs),
     store |-> <<>>, set |-> made]
ChildEvent(parent, sub_store) ==
    [op |-> "get_child", at |-> <<>>, arg |-> sub_store, names |-> {},
     store |-> parent, set |-> NoValue]
HandlerEvent(container, handler) ==
    [op |-> "set_handler", at |-> <<>>, arg |-> <<>>, names |-> {},
     store |-> container, set |-> handler]

\* A call's outcome: res is what it returns or the exception it raises.
Out(res, log) == [res |-> res, log |-> log]
\* A dict or list under construction, as a returned value.
Kw(d) == [t |-> "kwargs", d |-> d]

\* ------------------------------------------------------------ decode_kwarg
\* decode_kwarg on a tree node: value.pop(None), then decode the str
decode_kwarg(value) ==
    IF ~DictHas(value, NoneKey)
    THEN Exc("ValueError", "decode_kwarg got an invalid dict: {}", <<>>, <<>>)
    ELSE DecodeStr(DictGet(value, NoneKey))

\* {key: decode_kwarg(value) for key, value in settings_dict.items()}
RECURSIVE DecodeAll(_, _)
RECURSIVE DecodeItem(_, _, _)

\* one item of the comprehension, v its decoded value
DecodeItem(items, kwargs, v) ==
    IF IsExc(v) THEN v
    ELSE DecodeAll(Tail(items), DictSet(kwargs, Head(items).key, v))

DecodeAll(items, kwargs) ==
    IF items = <<>> THEN Kw(kwargs)
    ELSE DecodeItem(items, kwargs, decode_kwarg(Head(items).val))

\* --------------------------------------------------------------- get_filter
\* filter_cls(**kwargs): made is the instance or what the constructor raised
FilterConstructed(key_prefix, filter_cls, kwargs, made, log) ==
    LET log2 == Append(log, ConstructEvent(key_prefix, filter_cls.id, kwargs, made))
    IN  IF IsExc(made)
        THEN Out(Exc(CabinetConfigError,
                     "Pyramid settings bad args for {}: {}",
                     key_prefix, made.detail), log2)
        ELSE Out(made, log2)

\* the decoded kwargs, then the call of the constructor
FilterDecoded(key_prefix, filter_cls, kwargs, log) ==
    IF IsExc(kwargs) THEN Out(kwargs, log)
    ELSE FilterConstructed(key_prefix, filter_cls, kwargs.d,
                           Construct(filter_cls.id, kwargs.d), log)

\* the outcome of try_import, then the decoding of the remaining items
FilterResolved(key_prefix, filter_cls, rest, log) ==
    IF IsExc(filter_cls)
    THEN Out(Exc(CabinetConfigError, "Pyramid settings bad value for {}",
                 key_prefix, <<>>), log)
    ELSE FilterDecoded(key_prefix, filter_cls, DecodeAll(rest, <<>>), log)

get_filter(key_prefix, settings_dict, log) ==
    IF ~DictHas(settings_dict, NoneKey)
    THEN Out(Exc("KeyError", "{}", <<>>, <<"N","o","n","e">>), log)
    ELSE LET filter_name == DictGet(settings_dict, NoneKey)
         IN  FilterResolved(key_prefix,
                            try_import(FiltersModule, filter_name),
                            DictPop(settings_dict, NoneKey),
                            Append(log, ImportEvent(key_prefix, filter_name)))

\* ---------------------------------------------------------- get_all_filters
\* int(filter_ref.lstrip("[").rstrip("]")) raises for the key None and for
\* text that is no integer
FilterIdParses(filter_ref) ==
    /\ filter_ref # NoneKey
    /\ IntParses(RStrip(LStrip(filter_ref, {"["}), {"]"}))
FilterId(filter_ref) == IntOf(RStrip(LStrip(filter_ref, {"["}), {"]"}))

\* filters.sort() on (filter_id, filter) tuples: equal ids make the sort
\* compare two filter instances, which define no order (TypeError)
SortRaises(filters) ==
    \E i, j \in 1..Len(filters) : i # j /\ filters[i][1] = filters[j][1]

\* variant: the list is returned in the order the keys were met
SortFiltersUnsorted(filters) == filters

RECURSIVE SortFilters(_)
SortFilters(filters) ==
    IF filters = <<>> THEN <<>>
    ELSE LET i == CHOOSE i \in 1..Len(filters) :
                      \A j \in 1..Len(filters) : filters[i][1] <= filters[j][1]
         IN  <<filters[i]>> \o SortFilters(SubSeq(filters, 1, i - 1)
                                            \o SubSeq(filters, i + 1, Len(filters)))

\* the loop of get_all_filters
RECURSIVE CollectFilters(_, _, _, _)
RECURSIVE CollectFilter(_, _, _, _)

\* one item of the loop, f the outcome of get_filter for it
CollectFilter(key_prefix, items, filters, f) ==
    IF IsExc(f.res) THEN f
    ELSE CollectFilters(key_prefix, Tail(items),
             Append(filters, <<FilterId(Head(items).key), f.res>>), f.log)

CollectFilters(key_prefix, items, filters, log) ==
    IF items = <<>> THEN Out(Kw(filters), log)
    ELSE
    LET filter_ref == Head(items).key
        filter_prefix == key_prefix \o <<".","f","i","l","t","e","r","s">>
                            \o (IF filter_ref = NoneKey THEN <<"N","o","n","e">> ELSE filter_ref)
    IN  IF ~FilterIdParses(filter_ref)
        THEN Out(Exc(CabinetConfigError, "Pyramid settings bad key {}{}: {}",
                     key_prefix \o (IF filter_ref = NoneKey THEN <<"N","o","n","e">> ELSE filter_ref),
                     <<"i","n","v","a","l","i","d"," ","l","i","t","e","r","a","l"," ","f","o","r"," ","i","n","t","(",")">>), log)
        ELSE CollectFilter(key_prefix, items, filters,
                           get_filter(filter_prefix, Head(items).val, log))

\* [filter for _, filter in filters]
FilterChain(sorted) ==
    [t |-> "filters", chain |-> [i \in 1..Len(sorted) |-> sorted[i][2]]]

\* filters.sort() and the list returned, got the outcome of the loop
SortedFilters(got) ==
    IF IsExc(got.res) THEN got
    ELSE IF SortRaises(got.res.d)
    THEN Out(Exc("TypeError", "{}", <<>>,
                 <<"'","<","'"," ","n","o","t"," ","s","u","p","p","o","r","t","e","d"," ","b","e","t","w","e","e","n"," ","i","n","s","t","a","n","c","e","s">>), got.log)
    ELSE Out(FilterChain(SortFilters(got.res.d)), got.log)

get_all_filters(key_prefix, settings_dict, log) ==
    SortedFilters(CollectFilters(key_prefix, settings_dict, <<>>, log))

\* -------------------------------------------------------------- get_handler
\* the text that follows the message when a close accepted name exists
DidYouMean(name, maybe) ==
    IF maybe # <<>>
    THEN <<" ","D","i","d"," ","y","o","u"," ","m","e","a","n"," ","\"">> \o name \o <<".">> \o maybe[1] \o <<"\"","?">>
    ELSE <<>>

\* the message of an unknown argument, with the closest accepted name
InvalidSetting(name, key, valid_args) ==
    Exc(CabinetConfigError, "Pyramid invalid setting \"{}.{}\". {}",
        name \o <<".">> \o key,
        DidYouMean(name, get_close_matches(key, valid_args)))

\* the loop of get_handler over the handler node's remaining items
RECURSIVE HandlerKwargs(_, _, _, _, _)
RECURSIVE HandlerKwarg(_, _, _, _, _)

\* one item of the loop, got the outcome of decoding its value
HandlerKwarg(name, valid_args, items, kwargs, got) ==
    IF IsExc(got.res) THEN got
    ELSE HandlerKwargs(name, valid_args, Tail(items),
                       DictSet(kwargs, Head(items).key, got.res), got.log)

HandlerKwargs(name, valid_args, items, kwargs, log) ==
    IF items = <<>> THEN Out(Kw(kwargs), log)
    ELSE
    LET key == Head(items).key
        value == Head(items).val
    IN  IF key \notin valid_args
        THEN Out(InvalidSetting(name, key, valid_args), log)
        ELSE HandlerKwarg(name, valid_args, items, kwargs,
                          IF key = <<"f","i","l","t","e","r","s">>
                          THEN get_all_filters(name, value, log)
                          ELSE Out(decode_kwarg(value), log))

\* handler_cls(**kwargs): made is the instance or what the constructor raised
HandlerConstructed(name, handler_cls, kwargs, made, log) ==
    LET log2 == Append(log, ConstructEvent(name, handler_cls.id, kwargs, made))
    IN  IF IsExc(made)
        THEN Out(Exc(CabinetConfigError,
                     "Pyramid settings bad args for {}: {}",
                     name, made.detail), log2)
        ELSE Out(made, log2)

\* the collected kwargs, then the call of the constructor
HandlerCollected(name, handler_cls, kw) ==
    IF IsExc(kw.res) THEN kw
    ELSE HandlerConstructed(name, handler_cls, kw.res.d,
                            Construct(handler_cls.id, kw.res.d), kw.log)

\* the outcome of try_import, then the loop over the remaining items
HandlerResolved(name, handler_cls, rest, log) ==
    IF IsExc(handler_cls)
    THEN Out(Exc(CabinetConfigError, "Pyramid settings bad value for {}",
                 name, <<>>), log)
    ELSE HandlerCollected(name, handler_cls,
             HandlerKwargs(name,
                           get_init_properties(handler_cls.id, "StorageHandlerBase"),
                           rest, <<>>, log))

get_handler(key_prefix, settings_dict, log) ==
    LET name == key_prefix \o <<".","h","a","n","d","l","e","r">>
        handler_name == DictGet(settings_dict, NoneKey)
    IN  HandlerResolved(name,
                        try_import(HandlersModule, handler_name),
                        DictPop(settings_dict, NoneKey),
                        Append(log, ImportEvent(name, handler_name)))
\* --------------------------------------------------------- StorageContainer
\* The container tree: each container, named by the path of child names from
\* the root, with its handler.  A container starts with no handler set.
Unset == [t |-> "unset"]
NoHandler == [t |-> "none"]
RootStore == <<>>
NewContainer == (RootStore :> Unset)

\* store.handler = handler
SetHandler(tree, container, handler) ==
    [tree EXCEPT ![container] = handler]

\* store[name]: the child of that name, created on first use
ChildOf(container, sub_store) == Append(container, sub_store)
GetOrCreateChild(tree, container, sub_store) ==
    IF ChildOf(container, sub_store) \in DOMAIN tree THEN tree
    ELSE tree @@ (ChildOf(container, sub_store) :> Unset)

\* -------------------------------------------------------------- setup_store
\* a child named by the bracket key with only the brackets removed
SubStoreNameKeepQuotes(key) == RStrip(LStrip(key, {"["}), {"]"})

\* key.lstrip("[").rstrip("]").strip('"').strip("'")
SubStoreName(key) ==
    Strip(Strip(RStrip(LStrip(key, {"["}), {"]"}), {"\""}), {"'"})

\* the test that makes a remaining key a sub-store key; the key None has no
\* startswith (AttributeError)
IsSubStoreKey(key) == StartsWith(key, <<"[">>) /\ EndsWith(key, <<"]">>)

\* The state setup works on: the container tree, the events so far, and the
\* exception that ended it (NoExc while it runs).
Run(tree, log, exc) == [tree |-> tree, log |-> log, exc |-> exc]

\* variant: the comparison with "none" does not fold case
IsNoneHandlerCaseSensitive(handler_class_name) == handler_class_name = <<"n","o","n","e">>

\* handler_class_name.lower() == "none"
IsNoneHandler(handler_class_name) == Lower(handler_class_name) = <<"n","o","n","e">>

HasHandlerName(settings_dict) ==
    /\ DictHas(settings_dict, <<"h","a","n","d","l","e","r">>)
    /\ DictHas(DictGet(settings_dict, <<"h","a","n","d","l","e","r">>), NoneKey)

RECURSIVE setup_store(_, _, _, _, _)
RECURSIVE SetupSubStores(_, _, _, _, _)
RECURSIVE HandlerAssigned(_, _, _, _, _, _)

\* the loop of setup_store over the items left after the handler is popped
SetupSubStores(run, container, key_prefix, name, items) ==
    IF items = <<>> \/ IsExc(run.exc) THEN run
    ELSE
    LET key == Head(items).key
    IN  IF key = NoneKey
        THEN Run(run.tree, run.log,
                 Exc("AttributeError", "{}", <<>>,
                     <<"'","N","o","n","e","T","y","p","e","'"," ","o","b","j","e","c","t"," ","h","a","s"," ","n","o"," ","a","t","t","r","i","b","u","t","e"," ","'","s","t","a","r","t","s","w","i","t","h","'">>))
        ELSE IF IsSubStoreKey(key)
        THEN LET sub_store == SubStoreName(key)
                 looked == Run(GetOrCreateChild(run.tree, container, sub_store),
                               Append(run.log, ChildEvent(container, sub_store)),
                               NoExc)
             IN  SetupSubStores(
                     setup_store(looked, ChildOf(container, sub_store),
                                 key_prefix \o key, key, Head(items).val),
                     container, key_prefix, name, Tail(items))
        ELSE Run(run.tree, run.log,
                 Exc(CabinetConfigError, "Pyramid settings unknown key {}.{}",
                     key_prefix \o <<".">> \o key, <<>>))

\* variant: a handler that could not be built is assigned as None
HandlerClearedOnFailure(run, container, key_prefix, name, settings_dict, got) ==
    IF IsExc(got.res)
    THEN Run(SetHandler(run.tree, container, NoHandler), got.log, got.res)
    ELSE SetupSubStores(
             Run(SetHandler(run.tree, container, got.res),
                 Append(got.log, HandlerEvent(container, got.res)), NoExc),
             container, key_prefix, name,
             DictPop(settings_dict, <<"h","a","n","d","l","e","r">>))

\* store.handler = handler and the loop, got the handler or what raised
HandlerAssigned(run, container, key_prefix, name, settings_dict, got) ==
    IF IsExc(got.res) THEN Run(run.tree, got.log, got.res)
    ELSE SetupSubStores(
             Run(SetHandler(run.tree, container, got.res),
                 Append(got.log, HandlerEvent(container, got.res)), NoExc),
             container, key_prefix, name,
             DictPop(settings_dict, <<"h","a","n","d","l","e","r">>))

setup_store(run, container, key_prefix, name, settings_dict) ==
    IF ~HasHandlerName(settings_dict)
    THEN Run(run.tree, run.log,
             Exc(CabinetConfigError, "Pyramid settings has no key for {}{}.handler",
                 key_prefix \o name \o <<".","h","a","n","d","l","e","r">>, <<>>))
    ELSE HandlerAssigned(run, container, key_prefix, name, settings_dict,
             IF IsNoneHandler(DictGet(DictGet(settings_dict, <<"h","a","n","d","l","e","r">>), NoneKey))
             THEN Out(NoHandler, run.log)
             ELSE get_handler(key_prefix \o name,
                              DictGet(settings_dict, <<"h","a","n","d","l","e","r">>), run.log))

\* ------------------------------------------------------ setup_from_settings
\* The outcome: the value returned ("True", "False", or "raised"), and the
\* run's container tree, events and exception.
Configured(run) ==
    [ret |-> IF IsExc(run.exc) THEN "raised" ELSE "True", run |-> run]

NotConfigured(tree) ==
    [ret |-> "False",
     run |-> Run(SetHandler(tree, RootStore, NoHandler),
                 <<HandlerEvent(RootStore, NoHandler)>>, NoExc)]

\* setup of the root when some key lies under the prefix
SetupRoot(settings_dict, tree, key_prefix) ==
    IF settings_dict # <<>>
    THEN Configured(setup_store(Run(tree, <<>>, NoExc), RootStore,
                                key_prefix, <<>>, settings_dict))
    ELSE NotConfigured(tree)

setup_from_settings(settings, tree, key_prefix) ==
    SetupRoot(get_keys_from(key_prefix, settings), tree, key_prefix)


\* --------------------------------------------------------- ValidateExtension
ExtSep == "."

\* set(ext.lower().strip(os.path.extsep) for ext in extensions)
NormalizeExtensions(extensions) == {Strip(Lower(e), {ExtSep}) : e \in extensions}

\* p.rfind(c), 0 when c does not occur
RFind(p, c) ==
    IF \E i \in 1..Len(p) : p[i] = c
    THEN CHOOSE i \in 1..Len(p) : p[i] = c /\ \A j \in (i + 1)..Len(p) : p[j] # c
    ELSE 0

\* os.path.splitext(filename)[1]: from the last dot of the last path
\* component, unless only dots precede it there
SplitExt(filename) ==
    LET sepIndex == RFind(filename, "/")
        dotIndex == RFind(filename, ExtSep)
    IN  IF /\ dotIndex > sepIndex
           /\ \E i \in (sepIndex + 1)..(dotIndex - 1) : filename[i] # ExtSep
        THEN Slice(filename, dotIndex, Len(filename))
        ELSE <<>>

\* variant: the extension is compared as written
extension_allowed_as_written(extensions, ext) ==
    IF extensions = {} THEN TRUE ELSE ext \in extensions

extension_allowed(extensions, ext) ==
    IF extensions = {} THEN TRUE ELSE Lower(ext) \in extensions

filename_allowed(extensions, filename) ==
    extension_allowed(extensions, Strip(SplitExt(filename), {ExtSep}))

\* ValidateExtension._apply(item)
apply(extensions, item) ==
    IF ~filename_allowed(extensions, item.filename)
    THEN Exc("FileExtensionNotAllowed", "{}", item.filename, <<>>)
    ELSE item
\* ============================================================ state machine
VARIABLES
    settings,     \* the settings map, entries <<key, value>> in dict order
    key_prefix,   \* the prefix setup_from_settings is called with
    pc,           \* "ready", then "done", then "finalized"
    ret,          \* what setup_from_settings returned, "raised" if it raised
    tree,         \* the container tree
    log,          \* the events of the run, in order
    exc,          \* the exception that escaped, NoExc if none
    finalized,    \* whether the caller finalized the root container
    value,        \* the raw string handed to decode_kwarg
    decoded,      \* what decode_kwarg returned or raised
    result,       \* what get_keys_from returned
    cls,          \* the class handed to get_init_properties
    to_class,     \* the stop class handed to get_init_properties
    props,        \* what get_init_properties returned or raised
    filter,       \* the ValidateExtension instance, its extensions attribute
    item,         \* the item handed to _apply
    applied       \* what _apply returned or raised

decodeVars == <<value, decoded>>
keysVars == <<result>>
propsVars == <<cls, to_class, props>>
applyVars == <<filter, item, applied>>
setupVars == <<ret, tree, log, exc, finalized>>
vars == <<settings, key_prefix, pc, setupVars, decodeVars, keysVars, propsVars, applyVars>>

\* ------------------------------------------------------------------ inputs
Entry(key, val) == <<key, val>>

\* every settings map of at most MaxSettings entries drawn from a universe of
\* entries, in every insertion order, keys distinct as in any dict
SettingsOver(universe) ==
    {s \in UNION {[1..n -> universe] : n \in 0..MaxSettings} :
        \A i, j \in 1..Len(s) : i # j => s[i][1] # s[j][1]}

\* containers: the root, a quoted and an unquoted child, a nested child
StoreEntries ==
    { Entry(<<"s","t","o","r","e",".","h","a","n","d","l","e","r">>, <<"D","u","m","m","y","H","a","n","d","l","e","r">>),
      Entry(<<"s","t","o","r","e",".","h","a","n","d","l","e","r">>, <<"N","o","N","e">>),
      Entry(<<"s","t","o","r","e",".","b","o","g","u","s">>, <<"x">>),
      Entry(<<"s","t","o","r","e","[","'","c","h","i","l","d","'","]",".","h","a","n","d","l","e","r">>, <<"S","3","H","a","n","d","l","e","r">>),
      Entry(<<"s","t","o","r","e","[","'","c","h","i","l","d","'","]",".","h","a","n","d","l","e","r">>, <<"n","o","n","e">>),
      Entry(<<"s","t","o","r","e","[","'","c","h","i","l","d","'","]",".","h","a","n","d","l","e","r",".","b","u","c","k","e","t","_","n","a","m","e">>, <<"s","t","a","t","i","c">>),
      Entry(<<"s","t","o","r","e","[","'","c","h","i","l","d","'","]",".","h","a","n","d","l","e","r",".","f","i","l","t","e","r","s","[","0","]">>, <<"V","a","l","i","d","a","t","e","E","x","t","e","n","s","i","o","n">>),
      Entry(<<"s","t","o","r","e","[","'","c","h","i","l","d","'","]">>, <<"x">>),
      Entry(<<"s","t","o","r","e","[","\"","c","h","i","l","d","\"","]",".","h","a","n","d","l","e","r">>, <<"D","u","m","m","y","H","a","n","d","l","e","r">>),
      Entry(<<"s","t","o","r","e","[","k","i","d","]",".","h","a","n","d","l","e","r">>, <<"D","u","m","m","y","H","a","n","d","l","e","r">>),
      Entry(<<"s","t","o","r","e","[","'","c","h","i","l","d","'","]","[","'","s","u","b","'","]",".","h","a","n","d","l","e","r">>, <<"D","u","m","m","y","H","a","n","d","l","e","r">>),
      Entry(<<"s","t","o","r","e","[","'","c","h","i","l","d","'","]","[","'","s","u","b","'","]",".","b","o","g","u","s">>, <<"x">>) }

\* a handler's type and arguments
ArgEntries ==
    { Entry(<<"s","t","o","r","e",".","h","a","n","d","l","e","r">>, <<"D","u","m","m","y","H","a","n","d","l","e","r">>),
      Entry(<<"s","t","o","r","e",".","h","a","n","d","l","e","r">>, <<"S","3","H","a","n","d","l","e","r">>),
      Entry(<<"s","t","o","r","e",".","h","a","n","d","l","e","r">>, <<"N","o","p","e">>),
      Entry(<<"s","t","o","r","e",".","h","a","n","d","l","e","r">>, <<"n","o","m","o","d",".","N","o","p","e">>),
      Entry(<<"s","t","o","r","e",".","h","a","n","d","l","e","r">>, <<"c","a","b","i","n","e","t",".","h","a","n","d","l","e","r","s",".","D","u","m","m","y","H","a","n","d","l","e","r">>),
      Entry(<<"s","t","o","r","e",".","h","a","n","d","l","e","r",".","b","a","s","e","_","u","r","l">>, <<"\"","5","\"">>),
      Entry(<<"s","t","o","r","e",".","h","a","n","d","l","e","r",".","b","a","s","e","_","u","r","l">>, <<" ","5"," ">>),
      Entry(<<"s","t","o","r","e",".","h","a","n","d","l","e","r",".","b","a","s","e","_","u","r","l">>, <<>>),
      Entry(<<"s","t","o","r","e",".","h","a","n","d","l","e","r",".","b","a","s","e","_","u","r">>, <<"x">>),
      Entry(<<"s","t","o","r","e",".","h","a","n","d","l","e","r",".","z","z","z">>, <<"x">>),
      Entry(<<"s","t","o","r","e",".","h","a","n","d","l","e","r",".","b","u","c","k","e","t","_","n","a","m","e">>, <<"s","t","a","t","i","c">>) }

\* a handler's filter chain
FilterEntries ==
    { Entry(<<"s","t","o","r","e",".","h","a","n","d","l","e","r">>, <<"D","u","m","m","y","H","a","n","d","l","e","r">>),
      Entry(<<"s","t","o","r","e",".","h","a","n","d","l","e","r",".","f","i","l","t","e","r","s","[","2","]">>, <<"V","a","l","i","d","a","t","e","E","x","t","e","n","s","i","o","n">>),
      Entry(<<"s","t","o","r","e",".","h","a","n","d","l","e","r",".","f","i","l","t","e","r","s","[","2","]",".","e","x","t","e","n","s","i","o","n","s">>, <<"[","'","p","n","g","'","]">>),
      Entry(<<"s","t","o","r","e",".","h","a","n","d","l","e","r",".","f","i","l","t","e","r","s","[","2","]",".","e","x","t","e","n","s","i","o","n","s">>, <<"5">>),
      Entry(<<"s","t","o","r","e",".","h","a","n","d","l","e","r",".","f","i","l","t","e","r","s","[","2","]",".","e","x","t","e","n","s","i","o","n">>, <<"[","'","p","n","g","'","]">>),
      Entry(<<"s","t","o","r","e",".","h","a","n","d","l","e","r",".","f","i","l","t","e","r","s","[","1","0","]">>, <<"R","a","n","d","o","m","i","z","e","F","i","l","e","n","a","m","e">>),
      Entry(<<"s","t","o","r","e",".","h","a","n","d","l","e","r",".","f","i","l","t","e","r","s","[","1","0","]">>, <<"N","o","p","e">>),
      Entry(<<"s","t","o","r","e",".","h","a","n","d","l","e","r",".","f","i","l","t","e","r","s","[","2","]">>, <<"R","a","n","d","o","m","i","z","e","F","i","l","e","n","a","m","e">>),
      Entry(<<"s","t","o","r","e",".","h","a","n","d","l","e","r",".","f","i","l","t","e","r","s","[","1","]">>, <<"R","a","n","d","o","m","i","z","e","F","i","l","e","n","a","m","e">>),
      Entry(<<"s","t","o","r","e",".","h","a","n","d","l","e","r",".","f","i","l","t","e","r","s","[","0","2","]">>, <<"R","a","n","d","o","m","i","z","e","F","i","l","e","n","a","m","e">>),
      Entry(<<"s","t","o","r","e",".","h","a","n","d","l","e","r",".","f","i","l","t","e","r","s","[","x","]">>, <<"R","a","n","d","o","m","i","z","e","F","i","l","e","n","a","m","e">>) }

\* keys inside and outside the prefix
PrefixEntries ==
    { Entry(<<"s","t","o","r","e",".","h","a","n","d","l","e","r">>, <<"D","u","m","m","y","H","a","n","d","l","e","r">>),
      Entry(<<"s","t","o","r","e">>, <<"D","u","m","m","y","H","a","n","d","l","e","r">>),
      Entry(<<"s","t","o","r","e","x",".","h","a","n","d","l","e","r">>, <<"D","u","m","m","y","H","a","n","d","l","e","r">>),
      Entry(<<"s","t",".","h","a","n","d","l","e","r">>, <<"n","o","n","e">>),
      Entry(<<"s","t","[","'","c","h","i","l","d","'","]",".","h","a","n","d","l","e","r">>, <<"D","u","m","m","y","H","a","n","d","l","e","r">>),
      Entry(<<"o","t","h","e","r",".","h","a","n","d","l","e","r">>, <<"D","u","m","m","y","H","a","n","d","l","e","r">>),
      Entry(<<"a",".","b",".","h","a","n","d","l","e","r">>, <<"D","u","m","m","y","H","a","n","d","l","e","r">>) }
Prefixes == {<<"s","t","o","r","e">>, <<"s","t">>, <<"a",".","b">>, <<"s","t","o">>}

\* keys and prefixes handed to get_keys_from: values with surrounding
\* whitespace, a node that is a leaf and has children, a dotted prefix
KeysEntries ==
    { Entry(<<"s","t","o","r","e",".","h","a","n","d","l","e","r">>, <<" ","D","u","m","m","y","H","a","n","d","l","e","r"," ">>),
      Entry(<<"s","t","o","r","e","[","'","c","h","i","l","d","'","]",".","h","a","n","d","l","e","r">>, <<"x">>),
      Entry(<<"s","t","o","r","e",".","a">>, <<"x">>),
      Entry(<<"s","t","o","r","e",".","a",".","b">>, <<"y"," ">>),
      Entry(<<"s","t","o","r","e","x",".","h","a","n","d","l","e","r">>, <<"x">>),
      Entry(<<"a",".","b",".","h","a","n","d","l","e","r">>, <<"x">>),
      Entry(<<"a",".","b","[","'","c","'","]">>, <<" ","x">>),
      Entry(<<"o","t","h","e","r">>, <<"x">>) }
KeysPrefixes == {<<"s","t","o","r","e">>, <<"a",".","b">>, <<"a">>, <<"s","t","o">>}

\* the characters of the raw values decode_kwarg is given
DecodeAlphabet == {"[", "]", "{", "}", "\"", "'", "5", "0", "a"}
Strings == UNION {[1..n -> DecodeAlphabet] : n \in 0..MaxLen}

\* -------------------------------------------------------------------- Init
\* no call of get_keys_from, get_init_properties or _apply is under way
NoKeysCall == result = NoExc
NoPropsCall == cls = "object" /\ to_class = "object" /\ props = NoExc
FileItem(filename) ==
    [filename |-> filename, path |-> <<<<"f","o","l","d","e","r">>>>, data |-> <<"c","o","n","t","e","n","t">>]
NoApplyCall == filter = {} /\ item = FileItem(<<>>) /\ applied = NoExc

InitWith(universe, prefixes) ==
    /\ settings \in SettingsOver(universe)
    /\ key_prefix \in prefixes
    /\ pc = "ready"
    /\ ret = "none"
    /\ tree = NewContainer
    /\ log = <<>>
    /\ exc = NoExc
    /\ finalized = FALSE
    /\ value = <<>>
    /\ decoded = NoExc
    /\ NoKeysCall /\ NoPropsCall /\ NoApplyCall

Init == InitWith(StoreEntries, {<<"s","t","o","r","e">>})
InitArgs == InitWith(ArgEntries, {<<"s","t","o","r","e">>})
InitFilters == InitWith(FilterEntries, {<<"s","t","o","r","e">>})
InitPrefix == InitWith(PrefixEntries, Prefixes)

InitKeys ==
    /\ settings \in SettingsOver(KeysEntries)
    /\ key_prefix \in KeysPrefixes
    /\ pc = "ready"
    /\ ret = "none"
    /\ tree = NewContainer
    /\ log = <<>>
    /\ exc = NoExc
    /\ finalized = FALSE
    /\ value = <<>>
    /\ decoded = NoExc
    /\ NoKeysCall /\ NoPropsCall /\ NoApplyCall

\* every class of the model as cls and as to_class
ClassIds == {c.id : c \in Classes}

InitProps ==
    /\ settings = <<>>
    /\ key_prefix = <<"s","t","o","r","e">>
    /\ pc = "ready"
    /\ ret = "none"
    /\ tree = NewContainer
    /\ log = <<>>
    /\ exc = NoExc
    /\ finalized = FALSE
    /\ value = <<>>
    /\ decoded = NoExc
    /\ cls \in ClassIds
    /\ to_class \in ClassIds
    /\ props = NoExc
    /\ NoKeysCall /\ NoApplyCall

\* the extension lists a ValidateExtension is configured with, the filenames
\* of the items it is applied to
ConfiguredExtensions == {<<"p">>, <<".","P">>, <<"p","q">>, <<>>}
NameAlphabet == {".", "/", "p", "P", "q"}
Filenames == UNION {[1..n -> NameAlphabet] : n \in 0..MaxName}

InitApply ==
    /\ settings = <<>>
    /\ key_prefix = <<"s","t","o","r","e">>
    /\ pc = "ready"
    /\ ret = "none"
    /\ tree = NewContainer
    /\ log = <<>>
    /\ exc = NoExc
    /\ finalized = FALSE
    /\ value = <<>>
    /\ decoded = NoExc
    /\ filter \in {NormalizeExtensions(e) : e \in SUBSET ConfiguredExtensions}
    /\ item \in {FileItem(f) : f \in Filenames}
    /\ applied = NoExc
    /\ NoKeysCall /\ NoPropsCall

InitDecode ==
    /\ settings = <<>>
    /\ key_prefix = <<"s","t","o","r","e">>
    /\ pc = "ready"
    /\ ret = "none"
    /\ tree = NewContainer
    /\ log = <<>>
    /\ exc = NoExc
    /\ finalized = FALSE
    /\ value \in Strings
    /\ decoded = NoExc
    /\ NoKeysCall /\ NoPropsCall /\ NoApplyCall

\* ----------------------------------------------------------------- actions
\* what the call leaves behind
Returns(out) ==
    /\ ret' = out.ret
    /\ tree' = out.run.tree
    /\ log' = out.run.log
    /\ exc' = out.run.exc

\* setup_from_settings(settings, store, key_prefix)
SetupFromSettings ==
    /\ pc = "ready"
    /\ Returns(setup_from_settings(settings, tree, key_prefix))
    /\ pc' = "done"
    /\ UNCHANGED <<settings, key_prefix, finalized, decodeVars, keysVars, propsVars, applyVars>>

\* includeme: finalize_config() when setup_from_settings returned True
FinalizeConfig ==
    /\ pc = "done"
    /\ ret = "True"
    /\ finalized' = TRUE
    /\ pc' = "finalized"
    /\ UNCHANGED <<settings, key_prefix, ret, tree, log, exc, decodeVars, keysVars, propsVars, applyVars>>

\* decode_kwarg(value) for a str
DecodeKwarg ==
    /\ pc = "ready"
    /\ decoded' = DecodeStr(value)
    /\ pc' = "done"
    /\ UNCHANGED <<settings, key_prefix, setupVars, value, keysVars, propsVars, applyVars>>

\* get_keys_from(prefix, settings)
GetKeysFrom ==
    /\ pc = "ready"
    /\ result' = Kw(get_keys_from(key_prefix, settings))
    /\ pc' = "done"
    /\ UNCHANGED <<settings, key_prefix, setupVars, decodeVars, propsVars, applyVars>>

\* get_init_properties(cls, to_class)
GetInitProperties ==
    /\ pc = "ready"
    /\ props' = IF InitPropertiesRaises(cls, to_class)
                THEN Exc("IndexError", "{}", <<>>, <<"l","i","s","t"," ","i","n","d","e","x"," ","o","u","t"," ","o","f"," ","r","a","n","g","e">>)
                ELSE SetV(get_init_properties(cls, to_class))
    /\ pc' = "done"
    /\ UNCHANGED <<settings, key_prefix, setupVars, decodeVars, keysVars, cls, to_class, applyVars>>

\* filter._apply(item)
Apply ==
    /\ pc = "ready"
    /\ applied' = apply(filter, item)
    /\ pc' = "done"
    /\ UNCHANGED <<settings, key_prefix, setupVars, decodeVars, keysVars, propsVars, filter, item>>

Next == SetupFromSettings \/ FinalizeConfig
NextDecode == DecodeKwarg
NextKeys == GetKeysFrom
NextProps == GetInitProperties
NextApply == Apply

Spec == Init /\ [][Next]_vars
SpecArgs == InitArgs /\ [][Next]_vars
SpecFilters == InitFilters /\ [][Next]_vars
SpecPrefix == InitPrefix /\ [][Next]_vars
SpecDecode == InitDecode /\ [][NextDecode]_vars
SpecKeys == InitKeys /\ [][NextKeys]_vars
SpecProps == InitProps /\ [][NextProps]_vars
SpecApply == InitApply /\ [][NextApply]_vars

\* ================================================================== claims
\* helpers for stating the claims over the inputs and the run
Keys == {settings[i][1] : i \in 1..Len(settings)}
HasEntry(key) == key \in Keys
ValueOf(key) == settings[CHOOSE i \in 1..Len(settings) : settings[i][1] = key][2]
Events(op) == {i \in 1..Len(log) : log[i].op = op}
Ran == pc # "ready"

\* ---------------------------------------------------------------------- C1
\* no key of the settings map begins with "<prefix>." or "<prefix>["
NoKeyUnderPrefix ==
    \A k \in Keys :
        ~(\E n \in 1..Len(k) :
              /\ n = Len(key_prefix) + 1
              /\ SubSeq(k, 1, n - 1) = key_prefix
              /\ k[n] \in {".", "["})

\* C1: when no key begins with "<prefix>." or "<prefix>[", setup_from_settings
\* returns False, sets the root container's handler to None, raises nothing,
\* creates no child container, and the container is never finalized.
C1_NotConfigured ==
    (Ran /\ NoKeyUnderPrefix) =>
        /\ ret = "False"
        /\ exc = NoExc
        /\ DOMAIN tree = {RootStore}
        /\ tree[RootStore] = NoHandler
        /\ Events("get_child") = {}
        /\ ~finalized
        /\ pc # "finalized"

\* a run over a map whose keys all miss the prefix, one of them only by the
\* separator ("store" itself, or "storex.handler", under the prefix "store")
C1_Witness ==
    /\ pc = "done"
    /\ NoKeyUnderPrefix
    /\ \E k \in Keys : StartsWith(k, key_prefix)
    /\ ret = "False"

\* ---------------------------------------------------------------------- C2
\* the keys "<prefix>.handler.filters[<digits>]" of the settings map, the
\* integer each names, and the filter class its value names
FiltersKey == key_prefix \o <<".","h","a","n","d","l","e","r",".","f","i","l","t","e","r","s">>
IsFilterRef(k) ==
    /\ StartsWith(k, FiltersKey \o <<"[">>)
    /\ k[Len(k)] = "]"
    /\ IsDigit(SubSeq(k, Len(FiltersKey) + 2, Len(k) - 1))
FilterRefs == {k \in Keys : IsFilterRef(k)}
RefIndex(k) == DigitsToInt(SubSeq(k, Len(FiltersKey) + 2, Len(k) - 1))
RefClass(k) ==
    IF ValueOf(k) = <<"R","a","n","d","o","m","i","z","e","F","i","l","e","n","a","m","e">> THEN "RandomizeFilename"
    ELSE IF ValueOf(k) = <<"V","a","l","i","d","a","t","e","E","x","t","e","n","s","i","o","n">> THEN "ValidateExtension"
    ELSE "unknown"
PositionOf(k) == 1 + Cardinality({j \in FilterRefs : RefIndex(j) < RefIndex(k)})

\* the filter chain the root handler was constructed with
RootHasChain ==
    /\ tree[RootStore].t = "inst"
    /\ DictHas(tree[RootStore].kwargs, <<"f","i","l","t","e","r","s">>)
RootChain == DictGet(tree[RootStore].kwargs, <<"f","i","l","t","e","r","s">>).chain

\* a handler and nothing but argument-free filters at distinct indices
PlainChainSettings ==
    /\ HasEntry(key_prefix \o <<".","h","a","n","d","l","e","r">>)
    /\ ValueOf(key_prefix \o <<".","h","a","n","d","l","e","r">>) = <<"D","u","m","m","y","H","a","n","d","l","e","r">>
    /\ FilterRefs # {}
    /\ Keys = FilterRefs \cup {key_prefix \o <<".","h","a","n","d","l","e","r">>}
    /\ \A k \in FilterRefs : ValueOf(k) = <<"R","a","n","d","o","m","i","z","e","F","i","l","e","n","a","m","e">>
    /\ \A j, k \in FilterRefs : j # k => RefIndex(j) # RefIndex(k)

\* C2: the chain get_all_filters returns has exactly one instance per filter
\* key, in ascending order of the keys' integer indices, whatever the order
\* of the keys in the settings map.
C2_FilterOrder ==
    /\ (Ran /\ ret = "True" /\ FilterRefs # {}) =>
          /\ RootHasChain
          /\ Len(RootChain) = Cardinality(FilterRefs)
          /\ \A k \in FilterRefs : RootChain[PositionOf(k)].cls = RefClass(k)
    /\ (Ran /\ PlainChainSettings) => ret = "True"

\* a chain of two different filters whose higher index [10] comes first in the
\* map and sorts first as text, yet ends up last
C2_Witness ==
    /\ pc = "done"
    /\ ret = "True"
    /\ \E i, j \in 1..Len(settings) :
          /\ i < j
          /\ settings[i][1] = FiltersKey \o <<"[","1","0","]">>
          /\ settings[j][1] = FiltersKey \o <<"[","2","]">>
    /\ RootHasChain
    /\ Len(RootChain) = 2
    /\ RootChain[1].cls = "ValidateExtension"
    /\ RootChain[2].cls = "RandomizeFilename"

\* ---------------------------------------------------------------------- C3
\* "none" in any letter case
IsNoneText(v) ==
    /\ Len(v) = 4
    /\ v[1] \in {"n", "N"} /\ v[2] \in {"o", "O"}
    /\ v[3] \in {"n", "N"} /\ v[4] \in {"e", "E"}

\* the key naming a container's handler type: "<container>.handler"
IsHandlerKey(k) ==
    /\ EndsWith(k, <<".","h","a","n","d","l","e","r">>)
    /\ \A i \in 1..(Len(k) - 8) : k[i] # "."
HandlerKeys == {k \in Keys : IsHandlerKey(k)}
RootHandlerKey == key_prefix \o <<".","h","a","n","d","l","e","r">>
RootIsNone == HasEntry(RootHandlerKey) /\ IsNoneText(ValueOf(RootHandlerKey))

\* the calls of the type resolver and of constructors made for handlers
HandlerImports == {i \in Events("try_import") : EndsWith(log[i].at, <<".","h","a","n","d","l","e","r">>)}
HandlerConstructs == {i \in Events("construct") : EndsWith(log[i].at, <<".","h","a","n","d","l","e","r">>)}

ChildKey == key_prefix \o <<"[","'","c","h","i","l","d","'","]",".","h","a","n","d","l","e","r">>
ChildKeyDoubleQuoted == key_prefix \o <<"[","\"","c","h","i","l","d","\"","]",".","h","a","n","d","l","e","r">>
KidKey == key_prefix \o <<"[","k","i","d","]",".","h","a","n","d","l","e","r">>
ChildStore == <<<<"c","h","i","l","d">>>>
KidStore == <<<<"k","i","d">>>>
WasSet(container) == \E i \in Events("set_handler") : log[i].store = container

\* C3: a container whose handler value is "none" in any letter case gets the
\* handler None, without a call of try_import or of a constructor for it, and
\* its bracketed child containers are still configured.
C3_NoneHandler ==
    Ran =>
        /\ RootIsNone =>
              /\ tree[RootStore] = NoHandler
              /\ \A i \in HandlerImports \cup HandlerConstructs :
                    log[i].at # RootHandlerKey
        /\ (/\ HasEntry(ChildKey) /\ IsNoneText(ValueOf(ChildKey))
            /\ ~HasEntry(ChildKeyDoubleQuoted)
            /\ WasSet(ChildStore)) => tree[ChildStore] = NoHandler
        /\ (\A k \in HandlerKeys : IsNoneText(ValueOf(k))) =>
              /\ Events("try_import") = {} /\ Events("construct") = {}
              /\ \A c \in DOMAIN tree : tree[c] \in {NoHandler, Unset}
        /\ Cardinality(HandlerImports)
              <= Cardinality({k \in HandlerKeys : ~IsNoneText(ValueOf(k))})
        /\ (RootIsNone /\ ret = "True") =>
              /\ HasEntry(ChildKey) =>
                    ChildStore \in DOMAIN tree /\ tree[ChildStore] # Unset
              /\ HasEntry(KidKey) =>
                    KidStore \in DOMAIN tree /\ tree[KidStore] # Unset

\* the root disabled with "NoNe", its child 'child' disabled with "none", and
\* its child kid, configured after them, holding a handler
C3_Witness ==
    /\ pc = "done"
    /\ RootIsNone
    /\ ValueOf(RootHandlerKey) # <<"n","o","n","e">>
    /\ HasEntry(ChildKey) /\ IsNoneText(ValueOf(ChildKey))
    /\ ret = "True"
    /\ tree[RootStore] = NoHandler
    /\ tree[ChildStore] = NoHandler
    /\ KidStore \in DOMAIN tree
    /\ tree[KidStore].t = "inst"
    /\ Cardinality(HandlerImports) = 1

\* ---------------------------------------------------------------------- C4
\* an argument key "<component>.<name>": the component's key and the name
LastOf(k, c) == CHOOSE i \in 1..Len(k) : k[i] = c /\ \A j \in (i + 1)..Len(k) : k[j] # c
ArgName(k) == SubSeq(k, LastOf(k, ".") + 1, Len(k))
ComponentOf(k) == SubSeq(k, 1, LastOf(k, ".") - 1)
IsFilterArgKey(k) ==
    /\ StartsWith(k, FiltersKey \o <<"[">>)
    /\ \E i \in 1..Len(k) : k[i] = "."
    /\ ArgName(k) # <<>>
    /\ \A i \in 1..Len(ArgName(k)) : ArgName(k)[i] \notin {"[", "]"}
    /\ HasEntry(ComponentOf(k))
    /\ IsFilterRef(ComponentOf(k))
    /\ RefClass(ComponentOf(k)) # "unknown"
IsHandlerArgKey(k) ==
    /\ StartsWith(k, RootHandlerKey \o <<".">>)
    /\ ComponentOf(k) = RootHandlerKey
    /\ \A i \in 1..Len(ArgName(k)) : ArgName(k)[i] \notin {"[", "]"}
    /\ HasEntry(RootHandlerKey)
    /\ ValueOf(RootHandlerKey) \in {<<"D","u","m","m","y","H","a","n","d","l","e","r">>, <<"S","3","H","a","n","d","l","e","r">>}
RootClass == IF ValueOf(RootHandlerKey) = <<"D","u","m","m","y","H","a","n","d","l","e","r">> THEN "DummyHandler" ELSE "S3Handler"

\* the run ended while the component at this key path was being built
EndedBuilding(path) ==
    /\ exc # NoExc
    /\ Events("try_import") # {}
    /\ LET last == CHOOSE i \in Events("try_import") :
                       \A j \in Events("try_import") : j <= i
       IN  log[last].at = path

\* what the claim requires of the run for an unknown argument name of a
\* component of the given class; the suggestion is owed when the error is
\* about this argument
UnknownArgumentRejected(path, name, of_cls, about) ==
    /\ exc.type = CabinetConfigError
    /\ ~\E i \in Events("construct") :
            log[i].at = path /\ name \in log[i].names /\ log[i].set.t = "inst"
    /\ (about /\ get_close_matches(name, Accepts(of_cls)) # <<>>) =>
          Contains(exc.detail, get_close_matches(name, Accepts(of_cls))[1])

C4_HandlerArguments ==
    Ran => \A k \in Keys :
        (/\ IsHandlerArgKey(k)
         /\ ArgName(k) \notin Accepts(RootClass)
         /\ EndedBuilding(RootHandlerKey))
          => UnknownArgumentRejected(RootHandlerKey, ArgName(k), RootClass,
                                     exc.path = k)

C4_FilterArguments ==
    Ran => \A k \in Keys :
        (/\ IsFilterArgKey(k)
         /\ ArgName(k) \notin Accepts(RefClass(ComponentOf(k)))
         /\ EndedBuilding(ComponentOf(k)))
          => UnknownArgumentRejected(ComponentOf(k), ArgName(k),
                 RefClass(ComponentOf(k)),
                 \A j \in Keys : (IsFilterArgKey(j) /\ ComponentOf(j) = ComponentOf(k))
                                     => j = k)

\* C4: an argument key whose name the resolved type's ancestry does not
\* declare raises a CabinetConfigError, the component is never instantiated
\* with it, and the message suggests a close accepted name when there is one;
\* for handlers and for filters alike.
C4_UnknownArgument == C4_HandlerArguments /\ C4_FilterArguments

\* ---------------------------------------------------------------------- C5
NoKeyFmt == "Pyramid settings has no key for {}{}.handler"
\* the key path is that of a node of the settings: some key continues it
IsNodePath(p) ==
    \E k \in Keys :
        /\ StartsWith(k, p)
        /\ (Len(k) = Len(p) \/ k[Len(p) + 1] \in {".", "["})

\* C5: a container node without a handler entry raises a config error that
\* names "<prefix><k1>...<kn>.handler", each bracket segment once: the key
\* that is missing under a node the settings do have.
C5_MissingHandlerPath ==
    /\ (Ran /\ ~NoKeyUnderPrefix /\ ~HasEntry(RootHandlerKey)) =>
          /\ exc.type = CabinetConfigError
          /\ exc.fmt = NoKeyFmt
          /\ exc.path = RootHandlerKey
    /\ (Ran /\ exc # NoExc /\ exc.fmt = NoKeyFmt) =>
          /\ EndsWith(exc.path, <<".","h","a","n","d","l","e","r">>)
          /\ IsNodePath(SubSeq(exc.path, 1, Len(exc.path) - 8))
          /\ ~HasEntry(exc.path)

\* ---------------------------------------------------------------------- C6
\* C6: an unresolvable handler type raises a config error that tells "module
\* cannot be loaded" from "name not found in the module" and names the key
\* path and the raw type name.
C6_UnresolvableType ==
    (Ran /\ HasEntry(RootHandlerKey)
         /\ ValueOf(RootHandlerKey) \in {<<"N","o","p","e">>, <<"n","o","m","o","d",".","N","o","p","e">>}) =>
        /\ exc.type = CabinetConfigError
        /\ Contains(exc.path, RootHandlerKey)
        /\ Contains(exc.path \o exc.detail, ValueOf(RootHandlerKey))
        /\ ValueOf(RootHandlerKey) = <<"n","o","m","o","d",".","N","o","p","e">> =>
              Contains(exc.detail, <<"m","o","d","u","l","e"," ","n","o","t"," ","i","n","s","t","a","l","l","e","d">>)
        /\ ValueOf(RootHandlerKey) = <<"N","o","p","e">> =>
              Contains(exc.detail, <<"b","a","d"," ","c","l","a","s","s"," ","n","a","m","e">>)

\* ---------------------------------------------------------------------- C7
BogusKey == key_prefix \o <<".","b","o","g","u","s">>

\* C7: once the handler entry is consumed, a remaining child key that is not
\* a quoted bracket name (an unquoted [kid], a plain segment, a value set on
\* the container node itself) raises a CabinetConfigError naming the key; no
\* other exception type escapes and no child container is created for it.
C7_UnrecognizedKey ==
    Ran =>
        /\ exc # NoExc => exc.type = CabinetConfigError
        /\ (WasSet(RootStore) /\ HasEntry(KidKey)) => KidStore \notin DOMAIN tree
        /\ (Keys = {RootHandlerKey, KidKey}) =>
              /\ exc.type = CabinetConfigError
              /\ Contains(exc.path, <<"[","k","i","d","]">>)
        /\ (Keys = {RootHandlerKey, BogusKey}) =>
              /\ exc.type = CabinetConfigError
              /\ exc.fmt = "Pyramid settings unknown key {}.{}"
              /\ exc.path = BogusKey

\* ---------------------------------------------------------------------- C8
\* C8: an exception raised by a handler's or filter's constructor is re-raised
\* as a CabinetConfigError whose message contains the component's key path
\* (the key of its type entry) and the original message.
C8_ConstructorErrorWrapped ==
    Ran => \A i \in Events("construct") :
        log[i].set.t = "exc" =>
            /\ exc.type = CabinetConfigError
            /\ Contains(exc.detail, log[i].set.detail)
            /\ \E k \in Keys : Contains(exc.path, k) /\ ValueOf(k) # <<"x">>
                                /\ (IsHandlerKey(k) \/ k[Len(k)] = "]")

\* ---------------------------------------------------------------------- C9
ClassNamed(v) == IF v = <<"D","u","m","m","y","H","a","n","d","l","e","r">> THEN "DummyHandler" ELSE "S3Handler"

\* the key paths of the child containers the settings name: the prefix
\* followed by bracket segments only
ContainerPaths ==
    UNION { { SubSeq(k, 1, n) :
                n \in { m \in (Len(key_prefix) + 1)..Len(k) :
                          /\ StartsWith(k, key_prefix \o <<"[">>)
                          /\ k[m] = "]"
                          /\ \A l \in (Len(key_prefix) + 1)..m : k[l] # "." } }
            : k \in Keys }

ChildrenLookedUp ==
    {ChildOf(log[i].store, log[i].arg) : i \in Events("get_child")}

\* C9: when setup succeeds the root container holds an instance of the class
\* named by <prefix>.handler and the container named child (brackets and
\* quotes removed) an instance of the class named by <prefix>['child'].handler;
\* each bracket child key of a node makes exactly one get-or-create lookup on
\* its parent, followed by one setup_store of the child it returns.
C9_ChildContainers ==
    (Ran /\ ret = "True") =>
        /\ ~IsNoneText(ValueOf(RootHandlerKey)) =>
              /\ tree[RootStore].t = "inst"
              /\ tree[RootStore].cls = ClassNamed(ValueOf(RootHandlerKey))
        /\ (/\ HasEntry(ChildKey) /\ ~HasEntry(ChildKeyDoubleQuoted)
            /\ ~IsNoneText(ValueOf(ChildKey))) =>
              /\ ChildStore \in DOMAIN tree
              /\ tree[ChildStore].t = "inst"
              /\ tree[ChildStore].cls = ClassNamed(ValueOf(ChildKey))
        /\ Cardinality(Events("get_child")) = Cardinality(ContainerPaths)
        /\ Cardinality(Events("set_handler")) = 1 + Cardinality(Events("get_child"))
        /\ \A i \in Events("get_child") :
              \E j \in Events("set_handler") :
                  /\ j > i
                  /\ log[j].store = ChildOf(log[i].store, log[i].arg)
                  /\ \A l \in Events("get_child") :
                        (i < l /\ l < j) => log[l].store # log[i].store
        /\ DOMAIN tree = {RootStore} \cup ChildrenLookedUp

\* the root with a DummyHandler and its child 'child' with an S3Handler
C9_Witness ==
    /\ pc = "done"
    /\ ret = "True"
    /\ ValueOf(RootHandlerKey) = <<"D","u","m","m","y","H","a","n","d","l","e","r">>
    /\ HasEntry(ChildKey)
    /\ ValueOf(ChildKey) = <<"S","3","H","a","n","d","l","e","r">>
    /\ tree[RootStore].t = "inst" /\ tree[RootStore].cls = "DummyHandler"
    /\ DOMAIN tree = {RootStore, ChildStore}
    /\ tree[ChildStore].t = "inst" /\ tree[ChildStore].cls = "S3Handler"
    /\ Cardinality(Events("get_child")) = 1

\* --------------------------------------------------------------------- C10
Decoded == pc = "done" /\ decoded # NoExc
IsQuoted(v) == Len(v) >= 2 /\ v[1] \in Quotes /\ v[1] = v[Len(v)]
IsDelimited(v) ==
    \/ StartsWith(v, <<"[">>) /\ EndsWith(v, <<"]">>)
    \/ StartsWith(v, <<"{">>) /\ EndsWith(v, <<"}">>)

\* C10: for every string, the empty and the one-character ones included,
\* decode_kwarg returns the inner substring of a value wrapped in one pair of
\* matching quotes, the evaluated literal of a value delimited by [...] or
\* {...} (a config error when it does not parse), the integer of a value made
\* of decimal digits, and any other string unchanged, without raising.
C10_DecodeTable ==
    Decoded =>
        IF IsQuoted(value)
        THEN decoded = StrV(Slice(value, 2, Len(value) - 1))
        ELSE IF IsDelimited(value)
        THEN IF EvalLiteral(value) = ParseFail
             THEN IsExc(decoded) /\ decoded.type = CabinetConfigError
             ELSE decoded = EvalLiteral(value)
        ELSE IF value # <<>> /\ \A i \in 1..Len(value) : value[i] \in Digits
        THEN decoded = IntV(DigitsToInt(value))
        ELSE decoded = StrV(value)

\* --------------------------------------------------------------------- C11
KeysReturned == pc = "done" /\ result # NoExc

\* the keys that begin with "<prefix>." or "<prefix>["
KeysUnderPrefix ==
    {k \in Keys : /\ Len(k) > Len(key_prefix)
                  /\ SubSeq(k, 1, Len(key_prefix)) = key_prefix
                  /\ k[Len(key_prefix) + 1] \in {".", "["}}

\* the segments of a key after the prefix, every "[" starting a new segment
SegmentsAfterPrefix(k) ==
    Tail(Split(ReplaceBracket(SubSeq(k, Len(key_prefix) + 1, Len(k)))))

\* the node reached from d by the segments holds v in its None slot
RECURSIVE HoldsAt(_, _, _)
HoldsAt(d, segments, v) ==
    IF segments = <<>>
    THEN DictHas(d, NoneKey) /\ DictGet(d, NoneKey) = v
    ELSE /\ DictHas(d, Head(segments))
         /\ HoldsAt(DictGet(d, Head(segments)), Tail(segments), v)

\* the number of None slots of a tree
RECURSIVE Slots(_)
Slots(d) ==
    IF d = <<>> THEN 0
    ELSE (IF Head(d).key = NoneKey THEN 1 ELSE Slots(Head(d).val)) + Slots(Tail(d))

\* C11: for every prefix and settings map, get_keys_from returns the subtree
\* of exactly the keys beginning with "<prefix>." or "<prefix>[": non-empty
\* when a key was selected, empty otherwise, and holding at the node of each
\* selected key's segments after the prefix the trimmed value in the None slot.
C11_KeysFromPrefix ==
    KeysReturned =>
        /\ (KeysUnderPrefix # {}) <=> (result.d # <<>>)
        /\ \A k \in KeysUnderPrefix :
              HoldsAt(result.d, SegmentsAfterPrefix(k), Strip(ValueOf(k), Whitespace))
        /\ Slots(result.d) = Cardinality(KeysUnderPrefix)

\* the same statement for prefixes without a "." or "["
C11_UndottedPrefix ==
    (\A i \in 1..Len(key_prefix) : key_prefix[i] \notin {".", "["}) =>
        C11_KeysFromPrefix

\* --------------------------------------------------------------------- C12
PropsReturned == pc = "done" /\ props # NoExc

\* the constructor parameters a class declares itself, self and **kwargs
\* left out: ABC and FilterBase define no __init__
Declares(id) == IF id \in {"ABC", "FilterBase"} THEN {} ELSE ClassOf(id).init

\* cls and its ancestors that are subclasses of the stop class
UpToStopClass ==
    {cls} \cup {ClassOf(cls).mro[i] : i \in {j \in 1..Len(ClassOf(cls).mro) :
                                               IsSubclass(ClassOf(cls).mro[j], to_class)}}

\* C12: for every class and stop class, get_init_properties returns the union
\* of the constructor parameter names declared by cls and by each ancestor of
\* cls that is a subclass of the stop class, without self and **kwargs, also
\* for multiple inheritance and for the stop class object; it does not raise.
C12_InitProperties ==
    PropsReturned =>
        props = SetV(UNION {Declares(c) : c \in UpToStopClass})

\* --------------------------------------------------------------------- C13
Applied == pc = "done" /\ applied # NoExc

\* the positions of a dot that starts the filename's extension: no dot or
\* separator follows it, and a character other than a dot stands before it in
\* the same path component
ExtensionDots(f) ==
    {d \in 1..Len(f) :
        /\ f[d] = "."
        /\ \A j \in (d + 1)..Len(f) : f[j] \notin {".", "/"}
        /\ \E i \in 1..(d - 1) :
              f[i] # "." /\ \A j \in i..d : f[j] # "/"}

\* the extension without its leading dot, empty when the name has none
ExtensionOf(f) ==
    IF ExtensionDots(f) = {} THEN <<>>
    ELSE LET d == CHOOSE d \in ExtensionDots(f) : TRUE
         IN  SubSeq(f, d + 1, Len(f))

\* C13: _apply returns the item it was given, unchanged, when the extension of
\* its filename, compared without regard to case and without the leading dot,
\* is in the configured extension set or that set is empty; otherwise it
\* raises FileExtensionNotAllowed; it never returns another item.
C13_ApplyUnchanged ==
    Applied =>
        IF filter = {} \/ \E e \in filter : Lower(e) = Lower(ExtensionOf(item.filename))
        THEN applied = item
        ELSE IsExc(applied) /\ applied.type = "FileExtensionNotAllowed"

\* an item named q.P passes the filter configured with the extension p
C13_Witness ==
    /\ Applied
    /\ filter = {<<"p">>}
    /\ item.filename = <<"q",".","P">>
    /\ applied = item

\* --------------------------------------------------------------------- C14
SortRaised == exc # NoExc /\ exc.type = "TypeError"

\* C14: no two distinct entries of a handler's filters mapping parse to the
\* same integer index, so the sort of the (index, instance) pairs in
\* get_all_filters never compares two entries of equal index and never raises.
C14_NoTies ==
    Ran =>
        /\ \A j, k \in FilterRefs : j # k => RefIndex(j) # RefIndex(k)
        /\ ~SortRaised

\* --------------------------------------------------------------------- C15
Assignments == Events("set_handler")
Lookups == Events("get_child")
Builds == Events("try_import") \cup Events("construct")

\* the last assignment of a container's handler, 0 when there is none
LastAssignment(c) ==
    IF \E h \in Assignments : log[h].store = c
    THEN CHOOSE h \in Assignments :
             /\ log[h].store = c
             /\ \A g \in Assignments : log[g].store = c => g <= h
    ELSE 0

\* the run raised while a handler was being resolved, validated or built
RaisedWhileBuilding ==
    /\ exc # NoExc
    /\ log # <<>>
    /\ Len(log) \in Builds

\* the container whose handler was being built then: the child last looked
\* up, the root when no child was looked up
LastLookup == CHOOSE g \in Lookups : \A l \in Lookups : l <= g
BuildingFor ==
    IF Lookups = {} THEN RootStore
    ELSE ChildOf(log[LastLookup].store, log[LastLookup].arg)

\* C15: a container's handler is assigned after it has been resolved,
\* validated and constructed and before any of its children is looked up; if
\* building it raises, the container's handler is as it was and no child of it
\* has been looked up since, and a failure inside a child leaves the handlers
\* assigned to the parent and to earlier siblings in place.
C15_AssignAfterBuild ==
    Ran =>
        /\ \A g \in Lookups :
              \E h \in Assignments : h < g /\ log[h].store = log[g].store
        /\ \A h \in Assignments :
              /\ h < Len(log) => log[h + 1].op = "get_child"
              /\ log[h].set.t \in {"inst", "none"}
              /\ log[h].set.t = "inst" =>
                    /\ h > 1
                    /\ log[h - 1].op = "construct"
                    /\ log[h - 1].set = log[h].set
        /\ \A c \in DOMAIN tree :
              tree[c] = IF LastAssignment(c) = 0 THEN Unset
                        ELSE log[LastAssignment(c)].set
        /\ RaisedWhileBuilding =>
              /\ BuildingFor \in DOMAIN tree
              /\ \A h \in Assignments :
                    log[h].store = BuildingFor => h < LastLookup
              /\ \A g \in Lookups :
                    log[g].store = BuildingFor => g < LastLookup

\* the root and its child kid hold their handlers, and building the handler
\* of the child named child, looked up after kid, raised
C15_Witness ==
    /\ pc = "done"
    /\ RaisedWhileBuilding
    /\ exc.fmt = "Pyramid settings bad args for {}: {}"
    /\ tree[RootStore].t = "inst"
    /\ KidStore \in DOMAIN tree /\ tree[KidStore].t = "inst"
    /\ BuildingFor = ChildStore
    /\ tree[ChildStore] = Unset

=============================================================================
